---- MODULE Spec2Model ----
(***************************************************************************)
(* Personal library manager (src/personal_library_manager.py).             *)
(*                                                                         *)
(* A run of the script: LibraryManager() loads the backing file, the menu  *)
(* loop of main() dispatches one choice per iteration to the manager, and  *)
(* after the loop the __main__ block builds a second manager and adds a    *)
(* sample book.  Text is a sequence of one-character strings, so that      *)
(* str.lower(), the `in` substring test, int() and strftime() are computed *)
(* rather than assumed.  The backing file is a JSON document: an array of  *)
(* objects, each a sequence of <<key, value>> pairs.                       *)
(***************************************************************************)
EXTENDS Integers, Sequences, FiniteSets

VARIABLES
    pc,       \* "start" | "menu" | "exited" | "done" | "crashed"
    books,    \* self.books of the live LibraryManager
    file,     \* the backing file library_data.json
    now,      \* the latest date datetime.now() has returned
    call,     \* the inputs read and the manager call made by the last step
    out,      \* what the manager printed during the last step
    shown,    \* the records the last step returned or listed
    loaded,   \* history: the catalog as the first constructor left it
    mutated   \* history: some add/remove/update has succeeded

vars == <<pc, books, file, now, call, out, shown, loaded, mutated>>

\* How many times the date changes during a run.
MaxTicks == 1

-----------------------------------------------------------------------------
(* Text *)

UpperCase == <<"A","B","C","D","E","F","G","H","I","J","K","L","M",
               "N","O","P","Q","R","S","T","U","V","W","X","Y","Z">>
LowerCase == <<"a","b","c","d","e","f","g","h","i","j","k","l","m",
               "n","o","p","q","r","s","t","u","v","w","x","y","z">>
DigitChars == <<"0","1","2","3","4","5","6","7","8","9">>

lower_char(c) ==
    IF \E i \in 1..Len(UpperCase) : UpperCase[i] = c
    THEN LowerCase[CHOOSE i \in 1..Len(UpperCase) : UpperCase[i] = c]
    ELSE c

\* str.lower()
lower(s) == [i \in 1..Len(s) |-> lower_char(s[i])]

\* `q in s` on str: q occurs in s at some offset
str_in(q, s) ==
    \E k \in 0..(Len(s) - Len(q)) : SubSeq(s, k + 1, k + Len(q)) = q

\* str.strip() as int() applies it to its argument
RECURSIVE lstrip(_)
lstrip(s) == IF s # <<>> /\ Head(s) = " " THEN lstrip(Tail(s)) ELSE s

RECURSIVE rstrip(_)
rstrip(s) ==
    IF s # <<>> /\ s[Len(s)] = " " THEN rstrip(SubSeq(s, 1, Len(s) - 1)) ELSE s

strip(s) == rstrip(lstrip(s))

is_digit(c) == \E i \in 1..Len(DigitChars) : DigitChars[i] = c
digit_value(c) == (CHOOSE i \in 1..Len(DigitChars) : DigitChars[i] = c) - 1

int_sign(t) == IF t # <<>> /\ Head(t) = "-" THEN -1 ELSE 1
int_digits(t) == IF t # <<>> /\ Head(t) \in {"+", "-"} THEN Tail(t) ELSE t

\* int(text) succeeds: optional blanks, optional sign, one or more digits
int_ok(s) ==
    LET d == int_digits(strip(s))
    IN  d # <<>> /\ \A i \in 1..Len(d) : is_digit(d[i])

RECURSIVE digits_value(_)
digits_value(d) ==
    IF d = <<>> THEN 0
    ELSE 10 * digits_value(SubSeq(d, 1, Len(d) - 1)) + digit_value(d[Len(d)])

\* int(text), for a text int_ok accepts
int_of(s) == int_sign(strip(s)) * digits_value(int_digits(strip(s)))

\* zero-padded decimal of n in w digits (%Y is w = 4, %m and %d are w = 2)
RECURSIVE zero_padded(_, _)
zero_padded(n, w) ==
    IF w = 0 THEN <<>>
    ELSE Append(zero_padded(n \div 10, w - 1), DigitChars[(n % 10) + 1])

\* datetime.strftime("%Y-%m-%d")
strftime(t) ==
    zero_padded(t.year, 4) \o <<"-">> \o zero_padded(t.month, 2)
        \o <<"-">> \o zero_padded(t.day, 2)

-----------------------------------------------------------------------------
(* Book and its JSON form *)

BookFields ==
    {"title", "author", "isbn", "genre", "year_published", "date_added", "status"}

Book(title, author, isbn, genre, year_published, date_added, status) ==
    [title |-> title, author |-> author, isbn |-> isbn, genre |-> genre,
     year_published |-> year_published, date_added |-> date_added,
     status |-> status]

\* JSON scalars
json_string(s) == [t |-> "string", s |-> s, n |-> 0]
json_number(n) == [t |-> "number", s |-> <<>>, n |-> n]
json_decode(v) == IF v.t = "string" THEN v.s ELSE v.n

\* book.__dict__ as json.dump writes it: the fields in declaration order
book_dict(b) ==
    << <<"title", json_string(b.title)>>,
       <<"author", json_string(b.author)>>,
       <<"isbn", json_string(b.isbn)>>,
       <<"genre", json_string(b.genre)>>,
       <<"year_published", json_number(b.year_published)>>,
       <<"date_added", json_string(b.date_added)>>,
       <<"status", json_string(b.status)>> >>

dict_keys(d) == {d[i][1] : i \in 1..Len(d)}

\* the value json.load keeps for key k: the last pair with that key
dict_get(d, k) ==
    LET at == {i \in 1..Len(d) : d[i][1] = k}
    IN  json_decode(d[CHOOSE i \in at : \A j \in at : j <= i][2])

\* Book(**d) accepts d: exactly the seven keyword arguments
book_args_ok(d) == dict_keys(d) = BookFields

\* Book(**d)
book_of_dict(d) ==
    Book(dict_get(d, "title"), dict_get(d, "author"), dict_get(d, "isbn"),
         dict_get(d, "genre"), dict_get(d, "year_published"),
         dict_get(d, "date_added"), dict_get(d, "status"))

\* A backing file: absent, or text that is JSON or not; a JSON document is
\* an array of objects or a bare number.
NoFile == [exists |-> FALSE, parses |-> FALSE, is_array |-> FALSE, items |-> <<>>]
GarbageFile == [exists |-> TRUE, parses |-> FALSE, is_array |-> FALSE, items |-> <<>>]
NumberFile == [exists |-> TRUE, parses |-> TRUE, is_array |-> FALSE, items |-> <<>>]
ArrayFile(items) ==
    [exists |-> TRUE, parses |-> TRUE, is_array |-> TRUE, items |-> items]

-----------------------------------------------------------------------------
(* LibraryManager *)

InvalidJsonMsg == "Error: Invalid JSON file. Starting with empty library."
DuplicateMsg == "Error: Book with ISBN already exists in the library."
NotFoundMsg == "Error: Book with ISBN not found in the library."
AddedMsg == "Book added successfully!"
RemovedMsg == "Book removed successfully!"
UpdatedMsg == "Status updated successfully!"
EmptyMsg == "The library is empty."
ContentsMsg == "Library Contents:"

\* load_library: the catalog, what is printed, and the exception that
\* escapes ("" when none does)
load_library(f) ==
    IF ~f.exists
    THEN [raised |-> "", books |-> <<>>, out |-> <<>>]
    ELSE IF ~f.parses
    THEN [raised |-> "", books |-> <<>>, out |-> <<InvalidJsonMsg>>]
    ELSE IF ~f.is_array \/ \E i \in 1..Len(f.items) : ~book_args_ok(f.items[i])
    THEN [raised |-> "TypeError", books |-> <<>>, out |-> <<>>]
    ELSE [raised |-> "",
          books |-> [i \in 1..Len(f.items) |-> book_of_dict(f.items[i])],
          out |-> <<>>]

\* save_library: the file json.dump leaves
save_library(bks) == ArrayFile([i \in 1..Len(bks) |-> book_dict(bks[i])])

\* any(book.isbn == isbn for book in self.books)
has_isbn(bks, isbn) == \E i \in 1..Len(bks) : bks[i].isbn = isbn

\* the index the for loops of remove_book and update_book_status stop at
first_index(bks, isbn) ==
    CHOOSE i \in 1..Len(bks) :
        bks[i].isbn = isbn /\ \A j \in 1..(i - 1) : bks[j].isbn # isbn

add_book_stale_date(bks, f, t, title, author, isbn, genre, year, status) ==
    IF has_isbn(bks, isbn)
    THEN [books |-> bks, file |-> f, out |-> <<DuplicateMsg>>, ok |-> FALSE]
    ELSE LET new == Append(bks, Book(title, author, isbn, genre, year,
                                     <<"2","0","2","6","-","1","1","-","0","3">>,
                                     status))
         IN  [books |-> new, file |-> save_library(new),
              out |-> <<AddedMsg>>, ok |-> TRUE]

add_book_unchecked(bks, f, t, title, author, isbn, genre, year, status) ==
    LET new == Append(bks, Book(title, author, isbn, genre, year,
                                strftime(t), status))
    IN  [books |-> new, file |-> save_library(new),
         out |-> <<AddedMsg>>, ok |-> TRUE]

add_book_unsaved(bks, f, t, title, author, isbn, genre, year, status) ==
    IF has_isbn(bks, isbn)
    THEN [books |-> bks, file |-> f, out |-> <<DuplicateMsg>>, ok |-> FALSE]
    ELSE [books |-> Append(bks, Book(title, author, isbn, genre, year,
                                     strftime(t), status)),
          file |-> f, out |-> <<AddedMsg>>, ok |-> TRUE]

add_book(bks, f, t, title, author, isbn, genre, year, status) ==
    IF has_isbn(bks, isbn)
    THEN [books |-> bks, file |-> f, out |-> <<DuplicateMsg>>, ok |-> FALSE]
    ELSE LET new == Append(bks, Book(title, author, isbn, genre, year,
                                     strftime(t), status))
         IN  [books |-> new, file |-> save_library(new),
              out |-> <<AddedMsg>>, ok |-> TRUE]

remove_book_pops_last(bks, f, isbn) ==
    IF has_isbn(bks, isbn)
    THEN LET new == SubSeq(bks, 1, Len(bks) - 1)
         IN  [books |-> new, file |-> save_library(new),
              out |-> <<RemovedMsg>>, ok |-> TRUE]
    ELSE [books |-> bks, file |-> f, out |-> <<NotFoundMsg>>, ok |-> FALSE]

remove_book_always_saves(bks, f, isbn) ==
    IF has_isbn(bks, isbn)
    THEN LET i == first_index(bks, isbn)
             new == SubSeq(bks, 1, i - 1) \o SubSeq(bks, i + 1, Len(bks))
         IN  [books |-> new, file |-> save_library(new),
              out |-> <<RemovedMsg>>, ok |-> TRUE]
    ELSE [books |-> bks, file |-> save_library(bks),
          out |-> <<NotFoundMsg>>, ok |-> FALSE]

remove_book(bks, f, isbn) ==
    IF has_isbn(bks, isbn)
    THEN LET i == first_index(bks, isbn)
             new == SubSeq(bks, 1, i - 1) \o SubSeq(bks, i + 1, Len(bks))
         IN  [books |-> new, file |-> save_library(new),
              out |-> <<RemovedMsg>>, ok |-> TRUE]
    ELSE [books |-> bks, file |-> f, out |-> <<NotFoundMsg>>, ok |-> FALSE]

\* query in title.lower() or ... or query in genre.lower(), query lowered
book_matches(b, query) ==
    LET q == lower(query)
    IN  \/ str_in(q, lower(b.title))
        \/ str_in(q, lower(b.author))
        \/ str_in(q, lower(b.isbn))
        \/ str_in(q, lower(b.genre))

search_books_without_genre(bks, query) ==
    LET q == lower(query)
        hit(b) == \/ str_in(q, lower(b.title))
                  \/ str_in(q, lower(b.author))
                  \/ str_in(q, lower(b.isbn))
    IN  SelectSeq(bks, hit)

\* search_books: the list comprehension over self.books
search_books(bks, query) ==
    LET hit(b) == book_matches(b, query)
    IN  SelectSeq(bks, hit)

\* list_books prints
list_books(bks) == IF bks = <<>> THEN <<EmptyMsg>> ELSE <<ContentsMsg>>

update_book_status_unsaved(bks, f, isbn, new_status) ==
    IF has_isbn(bks, isbn)
    THEN [books |-> [bks EXCEPT ![first_index(bks, isbn)].status = new_status],
          file |-> f, out |-> <<UpdatedMsg>>, ok |-> TRUE]
    ELSE [books |-> bks, file |-> f, out |-> <<NotFoundMsg>>, ok |-> FALSE]

update_book_status_moves(bks, f, isbn, new_status) ==
    IF has_isbn(bks, isbn)
    THEN LET i == first_index(bks, isbn)
             new == Append(SubSeq(bks, 1, i - 1) \o SubSeq(bks, i + 1, Len(bks)),
                           [bks[i] EXCEPT !.status = new_status])
         IN  [books |-> new, file |-> save_library(new),
              out |-> <<UpdatedMsg>>, ok |-> TRUE]
    ELSE [books |-> bks, file |-> f, out |-> <<NotFoundMsg>>, ok |-> FALSE]

update_book_status(bks, f, isbn, new_status) ==
    IF has_isbn(bks, isbn)
    THEN LET new == [bks EXCEPT ![first_index(bks, isbn)].status = new_status]
         IN  [books |-> new, file |-> save_library(new),
              out |-> <<UpdatedMsg>>, ok |-> TRUE]
    ELSE [books |-> bks, file |-> f, out |-> <<NotFoundMsg>>, ok |-> FALSE]

-----------------------------------------------------------------------------
(* What the user types and what the disk holds at start *)

T1984 == <<"1","9","8","4">>
TEmma == <<"E","m","m","a">>
AOrwell == <<"O","r","w","e","l","l">>
GFiction == <<"F","i","c","t","i","o","n">>
I111 == <<"1","1","1">>
I12X == <<"1","2","X">>
ToRead == <<"t","o","_","r","e","a","d">>
Finished == <<"D","o","n","e">>

Titles == {T1984, TEmma}
Authors == {AOrwell}
Isbns == {I111, I12X}
Genres == {GFiction}
YearTexts == {<<"1","9","4","9">>, <<" ","1","9","4","9">>, <<"1","9","a">>}
Statuses == {ToRead}
NewStatuses == {Finished}
Queries == {<<>>, <<"O","R","W">>, <<"f","i","c">>, <<"x">>, <<"8">>,
            <<"g","a","t","s","b","y">>, <<"z","z">>}
InvalidChoices == {"7", ""}

\* the book of the __main__ block
SampleBook ==
    [title |-> <<"T","h","e"," ","G","r","e","a","t"," ","G","a","t","s","b","y">>,
     author |-> <<"F","."," ","S","c","o","t","t"," ",
                  "F","i","t","z","g","e","r","a","l","d">>,
     isbn |-> <<"9","7","8","0","7","4","3","2","7","3","5","6","5">>,
     genre |-> GFiction,
     year_published |-> 1925,
     status |-> ToRead]

FirstDay == [year |-> 2026, month |-> 11, day |-> 3]
EarlierDay == [year |-> 2025, month |-> 12, day |-> 31]

\* the same object as book_dict writes it, keys in another order
reordered(d) == [i \in 1..Len(d) |-> d[Len(d) + 1 - i]]

StoredOrwell ==
    book_dict(Book(T1984, AOrwell, I111, GFiction, 1949, strftime(EarlierDay), ToRead))
StoredTwin ==
    book_dict(Book(TEmma, AOrwell, I111, GFiction, 1949, strftime(EarlierDay), ToRead))
StoredSample ==
    book_dict(Book(SampleBook.title, SampleBook.author, SampleBook.isbn,
                   SampleBook.genre, SampleBook.year_published,
                   strftime(EarlierDay), Finished))

\* library_data.json when the script starts: absent, not JSON, JSON that is
\* no array of seven-field objects, or a catalog (one of them hand-edited
\* into holding the same isbn twice)
InitialFiles ==
    { NoFile,
      GarbageFile,
      NumberFile,
      ArrayFile(<< <<<<"title", json_string(T1984)>>>> >>),
      ArrayFile(<<>>),
      ArrayFile(<<reordered(StoredOrwell), StoredSample>>),
      ArrayFile(<<StoredOrwell, StoredTwin>>) }

-----------------------------------------------------------------------------
(* The script *)

NoCall ==
    [choice |-> "", op |-> "", title |-> <<>>, author |-> <<>>, isbn |-> <<>>,
     genre |-> <<>>, year_text |-> <<>>, year |-> 0, status |-> <<>>,
     query |-> <<>>, ok |-> FALSE]

Init ==
    /\ pc = "start"
    /\ books = <<>>
    /\ file \in InitialFiles
    /\ now = FirstDay
    /\ call = NoCall
    /\ out = <<>>
    /\ shown = <<>>
    /\ loaded = <<>>
    /\ mutated = FALSE

\* the dates datetime.now() can return next: time does not run backwards
LaterDates ==
    {now} \cup (IF now.day < FirstDay.day + MaxTicks
                THEN {[now EXCEPT !.day = now.day + 1]} ELSE {})

\* library = LibraryManager()
main_start ==
    /\ pc = "start"
    /\ LET r == load_library(file)
       IN  /\ pc' = IF r.raised = "" THEN "menu" ELSE "crashed"
           /\ books' = r.books
           /\ out' = r.out
           /\ loaded' = r.books
    /\ call' = [NoCall EXCEPT !.op = "load"]
    /\ shown' = <<>>
    /\ UNCHANGED <<file, now, mutated>>

\* choice "1"
main_add(t, title, author, isbn, genre, year_text, status) ==
    /\ pc = "menu"
    /\ now' = t
    /\ IF ~int_ok(year_text)
       THEN /\ pc' = "crashed"
            /\ call' = [NoCall EXCEPT !.choice = "1", !.title = title,
                           !.author = author, !.isbn = isbn, !.genre = genre,
                           !.year_text = year_text]
            /\ out' = <<>>
            /\ UNCHANGED <<books, file, mutated>>
       ELSE LET year == int_of(year_text)
                r == add_book(books, file, t, title, author, isbn, genre,
                              year, status)
            IN  /\ pc' = "menu"
                /\ call' = [NoCall EXCEPT !.choice = "1", !.op = "add",
                               !.title = title, !.author = author,
                               !.isbn = isbn, !.genre = genre,
                               !.year_text = year_text, !.year = year,
                               !.status = status, !.ok = r.ok]
                /\ books' = r.books
                /\ file' = r.file
                /\ out' = r.out
                /\ mutated' = (mutated \/ r.ok)
    /\ shown' = <<>>
    /\ UNCHANGED loaded

\* choice "2"
main_remove(isbn) ==
    /\ pc = "menu"
    /\ LET r == remove_book(books, file, isbn)
       IN  /\ call' = [NoCall EXCEPT !.choice = "2", !.op = "remove",
                          !.isbn = isbn, !.ok = r.ok]
           /\ books' = r.books
           /\ file' = r.file
           /\ out' = r.out
           /\ mutated' = (mutated \/ r.ok)
    /\ shown' = <<>>
    /\ UNCHANGED <<pc, now, loaded>>

\* choice "3"
main_search(query) ==
    /\ pc = "menu"
    /\ call' = [NoCall EXCEPT !.choice = "3", !.op = "search", !.query = query]
    /\ shown' = search_books(books, query)
    /\ out' = <<>>
    /\ UNCHANGED <<pc, books, file, now, loaded, mutated>>

\* choice "4"
main_list ==
    /\ pc = "menu"
    /\ call' = [NoCall EXCEPT !.choice = "4", !.op = "list"]
    /\ shown' = books
    /\ out' = list_books(books)
    /\ UNCHANGED <<pc, books, file, now, loaded, mutated>>

\* choice "5"
main_update(isbn, new_status) ==
    /\ pc = "menu"
    /\ LET r == update_book_status(books, file, isbn, new_status)
       IN  /\ call' = [NoCall EXCEPT !.choice = "5", !.op = "update",
                          !.isbn = isbn, !.status = new_status, !.ok = r.ok]
           /\ books' = r.books
           /\ file' = r.file
           /\ out' = r.out
           /\ mutated' = (mutated \/ r.ok)
    /\ shown' = <<>>
    /\ UNCHANGED <<pc, now, loaded>>

\* choice "6"
main_exit ==
    /\ pc = "menu"
    /\ pc' = "exited"
    /\ call' = [NoCall EXCEPT !.choice = "6"]
    /\ out' = <<>>
    /\ shown' = <<>>
    /\ UNCHANGED <<books, file, now, loaded, mutated>>

invalid_target_breaks == "exited"

\* where any other choice leaves the loop
invalid_target == "menu"

\* any other choice
main_invalid(choice) ==
    /\ pc = "menu"
    /\ pc' = invalid_target
    /\ call' = [NoCall EXCEPT !.choice = choice]
    /\ out' = <<>>
    /\ shown' = <<>>
    /\ UNCHANGED <<books, file, now, loaded, mutated>>

\* the __main__ block after main() has returned: a second manager, then
\* add_book for the sample book
script_tail(t) ==
    /\ pc = "exited"
    /\ now' = t
    /\ LET l == load_library(file)
       IN  IF l.raised # ""
           THEN /\ pc' = "crashed"
                /\ books' = l.books
                /\ out' = l.out
                /\ call' = [NoCall EXCEPT !.op = "load"]
                /\ UNCHANGED <<file, mutated>>
           ELSE LET r == add_book(l.books, file, t, SampleBook.title,
                                  SampleBook.author, SampleBook.isbn,
                                  SampleBook.genre, SampleBook.year_published,
                                  SampleBook.status)
                IN  /\ pc' = "done"
                    /\ books' = r.books
                    /\ file' = r.file
                    /\ out' = l.out \o r.out
                    /\ call' = [NoCall EXCEPT !.op = "add",
                                   !.title = SampleBook.title,
                                   !.author = SampleBook.author,
                                   !.isbn = SampleBook.isbn,
                                   !.genre = SampleBook.genre,
                                   !.year = SampleBook.year_published,
                                   !.status = SampleBook.status, !.ok = r.ok]
                    /\ mutated' = (mutated \/ r.ok)
    /\ shown' = <<>>
    /\ UNCHANGED loaded

Next ==
    \/ main_start
    \/ \E t \in LaterDates, title \in Titles, author \in Authors,
          isbn \in Isbns, genre \in Genres, year_text \in YearTexts,
          status \in Statuses :
            main_add(t, title, author, isbn, genre, year_text, status)
    \/ \E isbn \in Isbns : main_remove(isbn)
    \/ \E query \in Queries : main_search(query)
    \/ main_list
    \/ \E isbn \in Isbns, new_status \in NewStatuses :
            main_update(isbn, new_status)
    \/ main_exit
    \/ \E choice \in InvalidChoices : main_invalid(choice)
    \/ \E t \in LaterDates : script_tail(t)

Spec == Init /\ [][Next]_vars

-----------------------------------------------------------------------------
(* Properties *)

NoDuplicateIsbn(bks) ==
    \A i, j \in 1..Len(bks) : i # j => bks[i].isbn # bks[j].isbn

without(bks, k) == SubSeq(bks, 1, k - 1) \o SubSeq(bks, k + 1, Len(bks))

\* the file parses and is an array of seven-field objects
WellFormed(f) ==
    f.parses /\ f.is_array /\ \A i \in 1..Len(f.items) : book_args_ok(f.items[i])

\* the catalog the add_book of a step works on: main's manager in the menu
\* loop, the freshly loaded second manager in the __main__ block
CatalogBefore == IF pc = "exited" THEN load_library(file).books ELSE books

\* C1: a catalog that was loaded without two records of one isbn never holds
\* two records of one isbn, whatever calls are made on it.
C1_UniqueIsbn ==
    (pc # "start" /\ NoDuplicateIsbn(loaded)) => NoDuplicateIsbn(books)

\* a second add of an isbn has just been refused in a two-book catalog
C1_Witness ==
    /\ call.op = "add" /\ ~call.ok
    /\ NoDuplicateIsbn(loaded)
    /\ Len(books) = 2

\* C2: once a mutation has succeeded, the backing file always loads, in a
\* fresh manager, to exactly the in-memory catalog (same records, same
\* order, every field equal).
C2_FileHoldsCatalog ==
    mutated =>
        /\ load_library(file).raised = ""
        /\ load_library(file).books = books

\* a later point of the run: a listing, after mutations that left two books
C2_Witness ==
    /\ mutated
    /\ call.op = "list"
    /\ Len(books) = 2
    /\ loaded = <<>>

\* C3: add_book of an isbn in the catalog, remove_book and
\* update_book_status of an isbn not in it, search_books and list_books
\* leave the catalog and the backing file as they were.
C3_NoEffect ==
    [][ ( /\ pc = "menu"
          /\ \/ call'.op = "add" /\ has_isbn(books, call'.isbn)
             \/ call'.op \in {"remove", "update"} /\ ~has_isbn(books, call'.isbn)
             \/ call'.op \in {"search", "list"} )
        => (books' = books /\ file' = file) ]_vars

\* a remove of an unknown isbn was refused and the absent file is still absent
C3_Witness ==
    /\ call.op = "remove" /\ ~call.ok
    /\ out = <<NotFoundMsg>>
    /\ ~file.exists

\* C4: add_book of an isbn not in the catalog appends one record with the
\* submitted fields and the current date, and leaves the earlier records
\* and their order alone.
C4_AddAppends ==
    [][ (call'.op = "add" /\ ~has_isbn(CatalogBefore, call'.isbn))
        => books' = Append(CatalogBefore,
                           [title |-> call'.title, author |-> call'.author,
                            isbn |-> call'.isbn, genre |-> call'.genre,
                            year_published |-> call'.year,
                            date_added |-> strftime(now'),
                            status |-> call'.status]) ]_vars

\* a second book was just added, on a later day than the first
C4_Witness ==
    /\ call.op = "add" /\ call.ok
    /\ Len(books) = 2
    /\ books[2].isbn = call.isbn
    /\ books[2].date_added = strftime(now)
    /\ books[1].date_added # books[2].date_added

\* C5: remove_book of an isbn in the catalog takes out one record of that
\* isbn and nothing else; in a catalog without duplicates none of that isbn
\* is left.
C5_RemoveOne ==
    [][ (pc = "menu" /\ call'.op = "remove" /\ has_isbn(books, call'.isbn))
        => /\ Len(books') = Len(books) - 1
           /\ \E k \in 1..Len(books) :
                  books[k].isbn = call'.isbn /\ books' = without(books, k)
           /\ NoDuplicateIsbn(books) => ~has_isbn(books', call'.isbn) ]_vars

\* one of two records sharing an isbn was removed, another book is kept too
C5_Witness ==
    /\ call.op = "remove" /\ call.ok
    /\ has_isbn(books, call.isbn)
    /\ Len(books) = 2

\* C6: update_book_status of an isbn in the catalog sets the status of one
\* record of that isbn to the given text, whatever it is, and changes
\* nothing else.
C6_UpdateStatusOnly ==
    [][ (pc = "menu" /\ call'.op = "update" /\ has_isbn(books, call'.isbn))
        => \E k \in 1..Len(books) :
               /\ books[k].isbn = call'.isbn
               /\ books' = [books EXCEPT ![k].status = call'.status] ]_vars

\* a status outside read/reading/to_read was just stored in a two-book catalog
C6_Witness ==
    /\ call.op = "update" /\ call.ok
    /\ call.status = Finished
    /\ Len(books) = 2
    /\ \E k \in 1..2 : books[k].isbn = call.isbn /\ books[k].status = Finished
    /\ \E k \in 1..2 : books[k].status = ToRead

\* C7: constructing a LibraryManager never aborts because of the file's
\* content: a missing file gives an empty catalog and no report, a file with
\* invalid content of any kind gives a report and an empty catalog.
C7_LoadNeverAborts ==
    (pc # "start" /\ call.op = "load") =>
        /\ pc # "crashed"
        /\ ~file.exists => (books = <<>> /\ out = <<>>)
        /\ (file.exists /\ ~WellFormed(file)) => (books = <<>> /\ out # <<>>)

\* the records of bks whose index is in idx, in catalog order
pick_in_order(bks, idx) ==
    [n \in 1..Cardinality(idx) |->
        bks[CHOOSE i \in idx : Cardinality({m \in idx : m < i}) = n - 1]]

\* text q occurs in text s: s is some text, then q, then some text
occurs_in(q, s) ==
    \E a \in 0..Len(s) : \E b \in a..Len(s) : SubSeq(s, a + 1, b) = q

C9_LoopEnds ==
    [][ pc = "menu"
        => /\ pc' # "menu" =>
                \/ call'.choice = "6" /\ pc' = "exited"
                \/ /\ call'.choice = "1"
                   /\ ~int_ok(call'.year_text)
                   /\ pc' = "crashed"
           /\ call'.choice = "6" => pc' = "exited" ]_vars

\* the menu is up again after an invalid choice
C9_Witness == pc = "menu" /\ call.choice = "7"

\* how many records of the file carry the isbn
stored_with(f, isbn) ==
    Cardinality({i \in 1..Len(f.items) : dict_get(f.items[i], "isbn") = isbn})

\* C10: once choice 6 has ended the loop, the __main__ block runs add_book
\* for the sample book on a second manager loaded from the file, so at the
\* end of the process the file holds a record with the sample isbn, and
\* exactly one when the catalog had no duplicates.
C10_SampleAtEnd ==
    [][ pc = "exited"
        => /\ pc' = "done"
           /\ call'.op = "add" /\ call'.isbn = SampleBook.isbn
           /\ file'.exists /\ WellFormed(file')
           /\ stored_with(file', SampleBook.isbn) >= 1
           /\ NoDuplicateIsbn(books)
                => stored_with(file', SampleBook.isbn) = 1 ]_vars

\* the process ended after the sample book was refused as already present
C10_Witness ==
    /\ pc = "done"
    /\ call.isbn = SampleBook.isbn /\ ~call.ok
    /\ NoDuplicateIsbn(books)
    /\ stored_with(file, SampleBook.isbn) = 1

====
